---- MODULE Spec2Model ----
(***************************************************************************)
(* Product catalog REST service (service/routes.py).                       *)
(*                                                                         *)
(* The state is the product table behind service.models.Product, the id   *)
(* sequence of that table, and the last request handled together with the *)
(* response it was given.  Every route is one action: a request is drawn, *)
(* the handler runs start to finish, and the response is recorded.        *)
(***************************************************************************)
EXTENDS Integers, Sequences, FiniteSets, TLC

VARIABLES db, nextId, req, resp

vars == <<db, nextId, req, resp>>

(***************************************************************************)
(* Bounds of the model.                                                    *)
(***************************************************************************)
\* ids the table's sequence hands out before creation stops
MaxId == 2

(***************************************************************************)
(* HTTP status codes (service.common.status).                              *)
(***************************************************************************)
HTTP_200_OK == 200
HTTP_201_CREATED == 201
HTTP_204_NO_CONTENT == 204
HTTP_400_BAD_REQUEST == 400
HTTP_404_NOT_FOUND == 404
HTTP_415_UNSUPPORTED_MEDIA_TYPE == 415

(***************************************************************************)
(* Values on the wire.                                                     *)
(***************************************************************************)
\* Python None: a query parameter / header / JSON key that is not there
None == "<None>"

JSON == "application/json"

\* Content-Type header of a request (None: no header)
ContentTypes == {None, JSON, "plain/text"}

\* names of the Category enumeration, by ordinal
CategoryNames == <<"CLOTHS", "FOOD">>

\* decimal literals and the Decimal value (in hundredths) each one denotes
PriceLiterals == <<"9.99", "12.50">>
PriceValues == <<999, 1250>>

\* JSON booleans
JsonTrue == "true"
JsonFalse == "false"

\* well-formed Product payloads (no id: the table assigns it)
Payloads ==
    { [name |-> "Hat",   description |-> "Red hat",  price |-> "9.99",
       available |-> JsonTrue,  category |-> "CLOTHS"],
      [name |-> "Hat",   description |-> "Blue hat", price |-> "12.50",
       available |-> JsonFalse, category |-> "CLOTHS"],
      [name |-> "Apple", description |-> "Red hat",  price |-> "12.50",
       available |-> JsonTrue,  category |-> "FOOD"] }

\* the body {}
EmptyBody ==
    [name |-> None, description |-> None, price |-> None,
     available |-> None, category |-> None]

\* bodies that do not deserialize: {}, name omitted, available of the wrong type
BadBodies ==
    { EmptyBody,
      [name |-> None,  description |-> "Red hat", price |-> "9.99",
       available |-> JsonTrue, category |-> "CLOTHS"],
      [name |-> "Hat", description |-> "Red hat", price |-> "9.99",
       available |-> "yes",    category |-> "CLOTHS"] }

Bodies == Payloads \cup BadBodies

\* ids a path can name: every id the sequence can hand out, and one it never does
PathIds == 1..(MaxId + 1)

\* values of the query parameters of GET /products
NameArgs == {None, "", "Hat", "Nope"}
CategoryArgs == {None, "", "CLOTHS", "FOOD", "SHOES"}
AvailableArgs == {None, "", "true", "false", "False"}

(***************************************************************************)
(* service.models: the Product entity and its table.                       *)
(***************************************************************************)
\* getattr(Category, name): the member of that name; AttributeError if none
HasCategory(name) == \E i \in DOMAIN CategoryNames : CategoryNames[i] = name
Category(name) == CHOOSE i \in DOMAIN CategoryNames : CategoryNames[i] = name

\* Decimal(literal) and str(decimal)
IsPriceLiteral(s) == \E i \in DOMAIN PriceLiterals : PriceLiterals[i] = s
Decimal(s) == PriceValues[CHOOSE i \in DOMAIN PriceLiterals : PriceLiterals[i] = s]
DecimalStr(v) == PriceLiterals[CHOOSE i \in DOMAIN PriceValues : PriceValues[i] = v]

\* Product.deserialize(data) succeeds
CanDeserialize(data) ==
    /\ data.name # None
    /\ data.description # None
    /\ IsPriceLiteral(data.price)
    /\ data.available \in {JsonTrue, JsonFalse}
    /\ HasCategory(data.category)

\* Product.deserialize(data): the entity's fields, from a body that deserializes
deserialize(data) ==
    [name        |-> data.name,
     description |-> data.description,
     price       |-> Decimal(data.price),
     available   |-> (data.available = JsonTrue),
     category    |-> Category(data.category)]

\* Product.serialize(): the entity's JSON
serialize(id, product) ==
    [id          |-> id,
     name        |-> product.name,
     description |-> product.description,
     price       |-> DecimalStr(product.price),
     available   |-> IF product.available THEN JsonTrue ELSE JsonFalse,
     category    |-> CategoryNames[product.category]]

\* Product.find(id): whether a row has that id
Found(table, id) == id \in DOMAIN table

\* Product.create(): the row is inserted under the next id of the sequence
create(table, id, product) ==
    [i \in DOMAIN table \cup {id} |-> IF i = id THEN product ELSE table[i]]

\* Product.update(): the row of that id is written back
update(table, id, product) ==
    [i \in DOMAIN table |-> IF i = id THEN product ELSE table[i]]

\* Product.delete(): the row of that id is removed
delete(table, id) ==
    [i \in DOMAIN table \ {id} |-> table[i]]

\* Product.all(), Product.find_by_*(): the ids of the rows selected
all(table) == DOMAIN table
find_by_name(table, name) == {i \in DOMAIN table : table[i].name = name}
find_by_category(table, category) == {i \in DOMAIN table : table[i].category = category}

\* the boolean a query string stands for
AsBool(s) == s \in {"true", "True"}
find_by_availability(table, available) ==
    {i \in DOMAIN table : table[i].available = AsBool(available)}

\* rows are returned in id order
RECURSIVE InIdOrder(_)
InIdOrder(ids) ==
    IF ids = {} THEN <<>>
    ELSE LET m == CHOOSE i \in ids : \A j \in ids : i <= j
         IN  <<m>> \o InIdOrder(ids \ {m})

\* [prod.serialize() for prod in products]
SerializeAll(table, ids) ==
    LET order == InIdOrder(ids)
    IN  [k \in DOMAIN order |-> serialize(order[k], table[order[k]])]

(***************************************************************************)
(* Responses.                                                              *)
(***************************************************************************)
\* a JSON object: {} when items is empty, else the one entity
Object(status, items) == [status |-> status, shape |-> "object", items |-> items]
\* a JSON array of entities
Array(status, items) == [status |-> status, shape |-> "array", items |-> items]
\* abort(status) or an unhandled exception: the framework's error page
Error(status) == [status |-> status, shape |-> "error", items |-> <<>>]

Outcome(table, next, response) == [db |-> table, nextId |-> next, resp |-> response]

(***************************************************************************)
(* service/routes.py                                                       *)
(***************************************************************************)
\* variant: only the presence of the header is checked
check_content_type_present(headers, content_type) ==
    headers # None

\* check_content_type passes (returns without abort)
check_content_type(headers, content_type) ==
    /\ headers # None
    /\ headers = content_type

\* variant: product.create() is left out
create_products_unsaved(r, table, next) ==
    IF ~check_content_type(r.ctype, JSON)
    THEN Outcome(table, next, Error(HTTP_415_UNSUPPORTED_MEDIA_TYPE))
    ELSE IF ~CanDeserialize(r.body)
    THEN Outcome(table, next, Error(HTTP_400_BAD_REQUEST))
    ELSE Outcome(table, next + 1,
                 Object(HTTP_201_CREATED, <<serialize(next, deserialize(r.body))>>))

\* POST /products
create_products(r, table, next) ==
    IF ~check_content_type(r.ctype, JSON)
    THEN Outcome(table, next, Error(HTTP_415_UNSUPPORTED_MEDIA_TYPE))
    ELSE IF ~CanDeserialize(r.body)
    THEN Outcome(table, next, Error(HTTP_400_BAD_REQUEST))
    ELSE LET product == deserialize(r.body)
         IN  Outcome(create(table, next, product), next + 1,
                     Object(HTTP_201_CREATED, <<serialize(next, product)>>))

\* Python truthiness of a query parameter: None and "" are falsy
Truthy(arg) == arg # None /\ arg # ""

\* variant: category is tested before name
ListBranch_category_first(r) ==
    IF Truthy(r.category) THEN "category"
    ELSE IF Truthy(r.name) THEN "name"
    ELSE IF Truthy(r.available) THEN "available"
    ELSE "all"

\* the if / elif chain of list_products: which lookup the request selects
ListBranch(r) ==
    IF Truthy(r.name) THEN "name"
    ELSE IF Truthy(r.category) THEN "category"
    ELSE IF Truthy(r.available) THEN "available"
    ELSE "all"

\* variants: the name filter selects every row; the category string is looked up
\* as a name; the query string is passed through bool(), so any non-empty
\* string counts as True; the default lists the available products only
name_products_any(table, r) == all(table)
category_products_by_name(table, r) == find_by_name(table, r.category)
available_products_bool(table, r) == find_by_availability(table, "true")
all_products_available(table, r) == find_by_availability(table, "true")

\* the lookup of each branch
name_products(table, r) == find_by_name(table, r.name)
category_products(table, r) == find_by_category(table, Category(r.category))
available_products(table, r) == find_by_availability(table, r.available)
all_products(table, r) == all(table)

\* GET /products
list_products(r, table, next) ==
    LET branch == ListBranch(r)
    IN  IF branch = "category" /\ ~HasCategory(r.category)
        THEN Outcome(table, next, Error(500))
        ELSE LET products ==
                     CASE branch = "name"      -> name_products(table, r)
                       [] branch = "category"  -> category_products(table, r)
                       [] branch = "available" -> available_products(table, r)
                       [] OTHER                -> all_products(table, r)
             IN  Outcome(table, next, Array(HTTP_200_OK, SerializeAll(table, products)))

\* GET /products/<product_id>
get_products(r, table, next) ==
    IF ~Found(table, r.id)
    THEN Outcome(table, next, Object(HTTP_404_NOT_FOUND, <<>>))
    ELSE Outcome(table, next, Object(HTTP_200_OK, <<serialize(r.id, table[r.id])>>))

\* variant: a PUT on an id that is not there inserts the product
update_products_upsert(r, table, next) ==
    IF ~check_content_type(r.ctype, JSON)
    THEN Outcome(table, next, Error(HTTP_415_UNSUPPORTED_MEDIA_TYPE))
    ELSE IF ~CanDeserialize(r.body)
    THEN Outcome(table, next, Object(HTTP_400_BAD_REQUEST, <<>>))
    ELSE LET product == deserialize(r.body)
         IN  Outcome(create(table, r.id, product), next,
                     Object(HTTP_200_OK, <<serialize(r.id, product)>>))

\* variant: prod_upt.update() is left out
update_products_unsaved(r, table, next) ==
    IF ~check_content_type(r.ctype, JSON)
    THEN Outcome(table, next, Error(HTTP_415_UNSUPPORTED_MEDIA_TYPE))
    ELSE IF ~Found(table, r.id)
    THEN Outcome(table, next, Object(HTTP_404_NOT_FOUND, <<>>))
    ELSE IF ~CanDeserialize(r.body)
    THEN Outcome(table, next, Object(HTTP_400_BAD_REQUEST, <<>>))
    ELSE Outcome(table, next,
                 Object(HTTP_200_OK, <<serialize(r.id, deserialize(r.body))>>))

\* variant: the fields deserialize() had assigned to the looked-up entity before
\* it failed are written to the table
update_products_flushed(r, table, next) ==
    IF ~check_content_type(r.ctype, JSON)
    THEN Outcome(table, next, Error(HTTP_415_UNSUPPORTED_MEDIA_TYPE))
    ELSE IF ~Found(table, r.id)
    THEN Outcome(table, next, Object(HTTP_404_NOT_FOUND, <<>>))
    ELSE IF ~CanDeserialize(r.body)
    THEN LET old == table[r.id]
             named == r.body.name # None
             dirty == [old EXCEPT
                         !.name = IF named THEN r.body.name ELSE @,
                         !.description =
                             IF named /\ r.body.description # None
                             THEN r.body.description ELSE @]
         IN  Outcome(update(table, r.id, dirty), next, Object(HTTP_400_BAD_REQUEST, <<>>))
    ELSE LET product == deserialize(r.body)
         IN  Outcome(update(table, r.id, product), next,
                     Object(HTTP_200_OK, <<serialize(r.id, product)>>))

\* PUT /products/<product_id>
update_products(r, table, next) ==
    IF ~check_content_type(r.ctype, JSON)
    THEN Outcome(table, next, Error(HTTP_415_UNSUPPORTED_MEDIA_TYPE))
    ELSE IF ~Found(table, r.id)
    THEN Outcome(table, next, Object(HTTP_404_NOT_FOUND, <<>>))
    ELSE IF ~CanDeserialize(r.body)
    THEN Outcome(table, next, Object(HTTP_400_BAD_REQUEST, <<>>))
    ELSE LET product == deserialize(r.body)
         IN  Outcome(update(table, r.id, product), next,
                     Object(HTTP_200_OK, <<serialize(r.id, product)>>))

\* variant: prod_upt.delete() is left out
delete_products_unsaved(r, table, next) ==
    IF ~Found(table, r.id)
    THEN Outcome(table, next, Object(HTTP_404_NOT_FOUND, <<>>))
    ELSE Outcome(table, next, Object(HTTP_204_NO_CONTENT, <<>>))

\* DELETE /products/<product_id>
delete_products(r, table, next) ==
    IF ~Found(table, r.id)
    THEN Outcome(table, next, Object(HTTP_404_NOT_FOUND, <<>>))
    ELSE Outcome(delete(table, r.id), next, Object(HTTP_204_NO_CONTENT, <<>>))

(***************************************************************************)
(* Requests and the state machine.                                         *)
(***************************************************************************)
Request(method, id, ctype, body, name, category, available) ==
    [method |-> method, id |-> id, ctype |-> ctype, body |-> body,
     name |-> name, category |-> category, available |-> available]

Handle(r, out) ==
    /\ req' = r
    /\ db' = out.db
    /\ nextId' = out.nextId
    /\ resp' = out.resp

Init ==
    /\ db = << >>
    /\ nextId = 1
    /\ req = Request("NONE", 0, None, EmptyBody, None, None, None)
    /\ resp = Error(0)

CreateProducts ==
    /\ nextId <= MaxId
    /\ \E ctype \in ContentTypes, body \in Bodies :
          LET r == Request("POST", 0, ctype, body, None, None, None)
          IN  Handle(r, create_products(r, db, nextId))

\* list_products never reads the header: it is drawn from the values the
\* content-type check of the write handlers would reject
ListProducts ==
    \E ctype \in ContentTypes \ {JSON}, name \in NameArgs, category \in CategoryArgs,
       available \in AvailableArgs :
       LET r == Request("LIST", 0, ctype, EmptyBody, name, category, available)
       IN  Handle(r, list_products(r, db, nextId))

GetProducts ==
    \E id \in PathIds, ctype \in ContentTypes :
       LET r == Request("GET", id, ctype, EmptyBody, None, None, None)
       IN  Handle(r, get_products(r, db, nextId))

UpdateProducts ==
    \E id \in PathIds, ctype \in ContentTypes, body \in Bodies :
       LET r == Request("PUT", id, ctype, body, None, None, None)
       IN  Handle(r, update_products(r, db, nextId))

DeleteProducts ==
    \E id \in PathIds, ctype \in ContentTypes :
       LET r == Request("DELETE", id, ctype, EmptyBody, None, None, None)
       IN  Handle(r, delete_products(r, db, nextId))

Next ==
    \/ CreateProducts
    \/ ListProducts
    \/ GetProducts
    \/ UpdateProducts
    \/ DeleteProducts

Spec == Init /\ [][Next]_vars

(***************************************************************************)
(* Vocabulary of the properties.                                           *)
(***************************************************************************)
\* every id a request has ever been given by the sequence is below nextId
TypeOK ==
    /\ DOMAIN db \subseteq 1..(nextId - 1)
    /\ nextId \in 1..(MaxId + 1)

\* the entity JSON e carries the five fields of the payload b
FieldsEqual(e, b) ==
    /\ e.name = b.name
    /\ e.description = b.description
    /\ e.price = b.price
    /\ e.available = b.available
    /\ e.category = b.category

\* the response is 200 with exactly one entity
OneEntity(r, status) ==
    /\ r.status = status
    /\ r.shape = "object"
    /\ Len(r.items) = 1

\* the response is 404 with the empty object {}
NotFound(r) ==
    /\ r.status = 404
    /\ r.shape = "object"
    /\ r.items = <<>>

\* the response is 200 with the rows `ids` of the table, each exactly once
ExactlyRows(r, table, ids) ==
    /\ r.status = 200
    /\ r.shape = "array"
    /\ Len(r.items) = Cardinality(ids)
    /\ \A i \in ids :
          \E k \in DOMAIN r.items :
             /\ r.items[k].id = i
             /\ r.items[k].name = table[i].name
             /\ r.items[k].description = table[i].description
             /\ Decimal(r.items[k].price) = table[i].price
             /\ (r.items[k].available = JsonTrue) = table[i].available
             /\ r.items[k].category = CategoryNames[table[i].category]

\* the request is GET /products with these query parameters
IsList(r) == r.method = "LIST"
Supplied(arg) == arg # None

\* the boolean the claim reads in available=true / available=false
Flag(arg) == arg = "true"

(***************************************************************************)
(* C1: a POST /products with a valid payload is answered 201 with an id    *)
(* that no persisted product has and with the payload's fields, and a GET  *)
(* of that id right after it is answered 200 with an entity of that id     *)
(* whose name, description, price, available and category are the          *)
(* payload's, in whatever state the POST was made.                         *)
(***************************************************************************)
C1_Post ==
    (req'.method = "POST" /\ req'.ctype = JSON /\ req'.body \in Payloads)
    => /\ OneEntity(resp', 201)
       /\ resp'.items[1].id \notin DOMAIN db
       /\ FieldsEqual(resp'.items[1], req'.body)

C1_Get ==
    (/\ req.method = "POST"
     /\ resp.status = 201
     /\ req'.method = "GET"
     /\ req'.id = resp.items[1].id)
    => /\ OneEntity(resp', 200)
       /\ resp'.items[1].id = req'.id
       /\ FieldsEqual(resp'.items[1], req.body)

C1_CreateReadRoundTrip == [][C1_Post /\ C1_Get]_vars

\* a product was created after another one had been created and deleted
C1_Witness ==
    /\ req.method = "POST"
    /\ resp.status = 201
    /\ nextId = 3
    /\ Cardinality(DOMAIN db) = 1

(***************************************************************************)
(* C2: a DELETE of a persisted id is answered 204 and removes the product; *)
(* an id that was handed out and is no longer persisted stays absent, and  *)
(* every GET and every DELETE of it is answered 404.                       *)
(***************************************************************************)
C2_Delete ==
    (req'.method = "DELETE" /\ req'.id \in DOMAIN db)
    => /\ resp'.status = 204
       /\ req'.id \notin DOMAIN db'

C2_Terminal ==
    \A i \in 1..(nextId - 1) :
       i \notin DOMAIN db
       => /\ i \notin DOMAIN db'
          /\ (req'.method \in {"GET", "DELETE"} /\ req'.id = i) => resp'.status = 404

C2_DeletedIsTerminal == [][C2_Delete /\ C2_Terminal]_vars

\* a deleted id is deleted again
C2_Witness ==
    /\ req.method = "DELETE"
    /\ resp.status = 404
    /\ req.id < nextId

(***************************************************************************)
(* C3: GET /products without query parameters is answered 200 with every   *)
(* persisted product exactly once and nothing else.                        *)
(***************************************************************************)
C3_ListAll ==
    (/\ IsList(req)
     /\ ~Supplied(req.name) /\ ~Supplied(req.category) /\ ~Supplied(req.available))
    => ExactlyRows(resp, db, DOMAIN db)

\* the list after a create, a delete and a create
C3_Witness ==
    /\ IsList(req)
    /\ ~Supplied(req.name) /\ ~Supplied(req.category) /\ ~Supplied(req.available)
    /\ nextId = 3
    /\ Len(resp.items) = 1

(***************************************************************************)
(* C4 as stated: for any string X given as the only parameter name=X, the  *)
(* empty string included, GET /products is answered 200 with exactly the   *)
(* persisted products whose name is X.                                     *)
(***************************************************************************)
C4_AnyName ==
    (/\ IsList(req)
     /\ Supplied(req.name) /\ ~Supplied(req.category) /\ ~Supplied(req.available))
    => ExactlyRows(resp, db, {i \in DOMAIN db : db[i].name = req.name})

(***************************************************************************)
(* C4 amended: for any non-empty string X given as the only parameter      *)
(* name=X, GET /products is answered 200 with exactly the persisted        *)
(* products whose name is X; name= with the empty string is treated as no  *)
(* parameter and is answered with every persisted product.                 *)
(***************************************************************************)
C4_NonEmptyName ==
    (/\ IsList(req)
     /\ Supplied(req.name) /\ ~Supplied(req.category) /\ ~Supplied(req.available))
    => IF req.name = ""
       THEN ExactlyRows(resp, db, DOMAIN db)
       ELSE ExactlyRows(resp, db, {i \in DOMAIN db : db[i].name = req.name})

\* name=Hat selects one of two persisted products
C4_Witness ==
    /\ IsList(req)
    /\ req.name = "Hat" /\ ~Supplied(req.category) /\ ~Supplied(req.available)
    /\ Cardinality(DOMAIN db) = 2
    /\ Len(resp.items) = 1

C6_ListByCategory ==
    (/\ IsList(req)
     /\ ~Supplied(req.name)
     /\ \E c \in DOMAIN CategoryNames : CategoryNames[c] = req.category)
    => ExactlyRows(resp, db,
                   {i \in DOMAIN db : CategoryNames[db[i].category] = req.category})

\* category=FOOD selects one of two persisted products
C6_Witness ==
    /\ IsList(req)
    /\ ~Supplied(req.name)
    /\ req.category = "FOOD"
    /\ Cardinality(DOMAIN db) = 2
    /\ Len(resp.items) = 1

(***************************************************************************)
(* The result of the one filter a list request selects, when `chosen`      *)
(* tells whether a parameter counts as supplied.                           *)
(***************************************************************************)
OneFilter(chosen(_)) ==
    IF chosen(req.name)
    THEN ExactlyRows(resp, db, {i \in DOMAIN db : db[i].name = req.name})
    ELSE IF chosen(req.category)
    THEN IF \E c \in DOMAIN CategoryNames : CategoryNames[c] = req.category
         THEN ExactlyRows(resp, db,
                          {i \in DOMAIN db : CategoryNames[db[i].category] = req.category})
         ELSE resp.status = 500
    ELSE IF chosen(req.available)
    THEN ExactlyRows(resp, db,
                     {i \in DOMAIN db : db[i].available = (req.available \in {"true", "True"})})
    ELSE ExactlyRows(resp, db, DOMAIN db)

\* at least two of the three query parameters are supplied
SeveralSupplied(r) ==
    \/ Supplied(r.name) /\ Supplied(r.category)
    \/ Supplied(r.name) /\ Supplied(r.available)
    \/ Supplied(r.category) /\ Supplied(r.available)

(***************************************************************************)
(* C7 as stated: with more than one of name, category, available supplied, *)
(* the result is that of one filter: name if supplied, otherwise category  *)
(* if supplied, otherwise available if supplied.                           *)
(***************************************************************************)
C7_PrecedenceOfSupplied ==
    (IsList(req) /\ SeveralSupplied(req)) => OneFilter(Supplied)

(***************************************************************************)
(* C7 amended: with more than one of name, category, available supplied,   *)
(* the result is that of one filter: name if supplied and not empty,       *)
(* otherwise category if supplied and not empty, otherwise available if    *)
(* supplied and not empty, otherwise no filter; the parameters of lower    *)
(* precedence do not change the result.                                    *)
(***************************************************************************)
C7_PrecedenceOfNonEmpty ==
    (IsList(req) /\ SeveralSupplied(req)) => OneFilter(Truthy)

\* all three supplied, the name filter decides against the other two
C7_Witness ==
    /\ IsList(req)
    /\ req.name = "Hat" /\ req.category = "FOOD" /\ req.available = "true"
    /\ Cardinality(DOMAIN db) = 2
    /\ Len(resp.items) = 1
    /\ resp.items[1].category = "CLOTHS"
    /\ resp.items[1].available = JsonFalse

(***************************************************************************)
(* C8: a POST or PUT whose Content-Type is absent or is not                *)
(* application/json is answered 415 and leaves the persisted products as   *)
(* they were, whatever the id and the body; a GET, a list and a DELETE are *)
(* never answered 415.                                                     *)
(***************************************************************************)
C8_Step ==
    /\ (req'.method \in {"POST", "PUT"} /\ req'.ctype # JSON)
       => (resp'.status = 415 /\ db' = db)
    /\ (req'.method \in {"GET", "LIST", "DELETE"}) => resp'.status # 415

C8_UnsupportedMediaType == [][C8_Step]_vars

\* a PUT of a valid payload on a persisted id with Content-Type plain/text
C8_Witness ==
    /\ req.method = "PUT"
    /\ req.ctype = "plain/text"
    /\ req.id \in DOMAIN db
    /\ req.body \in Payloads
    /\ resp.status = 415

(***************************************************************************)
(* C9: for an id that is not persisted, GET, DELETE and a PUT with         *)
(* Content-Type application/json and any body are answered 404 with {},    *)
(* and the persisted products are left as they were.                       *)
(***************************************************************************)
C9_Step ==
    (/\ req'.id \notin DOMAIN db
     /\ \/ req'.method \in {"GET", "DELETE"}
        \/ req'.method = "PUT" /\ req'.ctype = JSON)
    => (NotFound(resp') /\ db' = db)

C9_NotFound == [][C9_Step]_vars

\* a PUT of a valid payload on an id that is not persisted, next to a persisted one
C9_Witness ==
    /\ req.method = "PUT"
    /\ req.ctype = JSON
    /\ req.body \in Payloads
    /\ req.id \notin DOMAIN db
    /\ db # << >>
    /\ NotFound(resp)

(***************************************************************************)
(* C10: a PUT of a valid payload on a persisted id is answered 200 with    *)
(* the updated entity; afterwards the product of that id has the payload's *)
(* name, description, price, available and category, the same ids are      *)
(* persisted, and every other product is as it was.                        *)
(***************************************************************************)
C10_Step ==
    (/\ req'.method = "PUT"
     /\ req'.ctype = JSON
     /\ req'.id \in DOMAIN db
     /\ req'.body \in Payloads)
    => /\ OneEntity(resp', 200)
       /\ resp'.items[1].id = req'.id
       /\ FieldsEqual(resp'.items[1], req'.body)
       /\ DOMAIN db' = DOMAIN db
       /\ db'[req'.id].name = req'.body.name
       /\ db'[req'.id].description = req'.body.description
       /\ DecimalStr(db'[req'.id].price) = req'.body.price
       /\ db'[req'.id].available = (req'.body.available = JsonTrue)
       /\ CategoryNames[db'[req'.id].category] = req'.body.category
       /\ \A j \in DOMAIN db \ {req'.id} : db'[j] = db[j]

C10_UpdateInPlace == [][C10_Step]_vars

\* an update of one of two persisted products
C10_Witness ==
    /\ req.method = "PUT"
    /\ resp.status = 200
    /\ Cardinality(DOMAIN db) = 2
    /\ \E j \in DOMAIN db : j # req.id /\ db[j].name # db[req.id].name

(***************************************************************************)
(* C11: a POST /products, or a PUT on a persisted id, with Content-Type     *)
(* application/json and a body that does not deserialize ({}, name         *)
(* omitted, a field of the wrong type) is answered 400 and leaves the      *)
(* persisted products as they were: no product is added, and a GET of the  *)
(* id right after the PUT still returns the fields the table held.         *)
(***************************************************************************)
C11_Rejected ==
    (/\ req'.ctype = JSON
     /\ req'.body \in BadBodies
     /\ \/ req'.method = "POST"
        \/ req'.method = "PUT" /\ req'.id \in DOMAIN db)
    => /\ resp'.status = 400
       /\ db' = db

C11_ReadAfter ==
    (/\ req.method = "PUT"
     /\ resp.status = 400
     /\ req'.method = "GET"
     /\ req'.id = req.id)
    => /\ OneEntity(resp', 200)
       /\ resp'.items[1].id = req.id
       /\ resp'.items[1].name = db[req.id].name
       /\ resp'.items[1].description = db[req.id].description
       /\ Decimal(resp'.items[1].price) = db[req.id].price
       /\ (resp'.items[1].available = JsonTrue) = db[req.id].available
       /\ resp'.items[1].category = CategoryNames[db[req.id].category]
       /\ db' = db

====
